---- MODULE Spec2Model ----
(***************************************************************************)
(* Two-part cache middleware (djcachemid/middleware.py).                   *)
(*                                                                         *)
(* FetchFromCacheMiddleware.process_request looks a page up in the cache   *)
(* backend, UpdateCacheMiddleware.process_response learns the header list  *)
(* of a path from the response's Vary header and stores the page.  The two *)
(* handlers share the cache backend and one request attribute,             *)
(* request._cache_update_cache.  Every backend call of a handler is one    *)
(* step of the model: the calls of requests in flight interleave, and the  *)
(* backend may drop an entry between any two of them.                      *)
(*                                                                         *)
(* Strings are TLA+ strings: cache keys are built by concatenation exactly *)
(* as the code formats them.  hashlib.md5 is modelled as an injective      *)
(* digest: MD5(s) is a string that determines s.                           *)
(***************************************************************************)
EXTENDS Integers, Sequences, FiniteSets, TLC

VARIABLES
    settings,   \* django.conf.settings, fixed at start-up
    middleware, \* the attributes of the middleware instance(s), set by __init__
    cache,      \* the cache backend: key -> entry, DOMAIN cache = keys on file
    pc,         \* per request slot: where the request is in the handlers
    request,    \* per slot: the request object
    update,     \* per slot: request._cache_update_cache ("unset", "true", "false")
    hit,        \* per slot: what process_request returned (<<>> is None)
    callback,   \* per slot: the post-render callback registered (<<>> is none)
    frame,      \* per slot: the local variables of the handler call under way
    last,       \* the handler call that returned or raised on the last step
    ops,        \* the backend calls made so far by the call that took the last step
    stored,     \* the last page store of process_response; none once an entry
                \* expired or a rendered page was stored
    nreq        \* number of requests that entered the pipeline

vars == <<settings, middleware, cache, pc, request, update, hit, callback, frame,
          last, ops, stored, nreq>>

(***************************************************************************)
(* Bounds of the model.                                                    *)
(***************************************************************************)
MaxRequests == 2

MaxPolicyRequests == 2

MaxVaryRequests == 3

MaxHeadRequests == 3

MaxLocaleRequests == 3

MaxRaceRequests == 3

MaxLearnRequests == 3

Slots == {"s1", "s2"}

(***************************************************************************)
(* Small pieces of Python.                                                 *)
(***************************************************************************)
\* Optional values: <<>> is None, <<v>> is the value v.
None == <<>>

Some(v) == <<v>>

IsNone(o) == Len(o) = 0

\* dict.get / getattr on a mapping whose DOMAIN is the set of keys present.
Has(m, k) == k \in DOMAIN m

Get(m, k) == IF k \in DOMAIN m THEN Some(m[k]) ELSE None

Put(m, k, v) == (k :> v) @@ m

Remove(m, k) == [x \in (DOMAIN m) \ {k} |-> m[x]]

EmptyMap == [x \in {} |-> 0]

Min(a, b) == IF a <= b THEN a ELSE b

(***************************************************************************)
(* Library functions the middleware calls.                                 *)
(***************************************************************************)
\* hashlib.md5(s).hexdigest(): an injective digest of the bytes hashed.
MD5(s) == "md5[" \o s \o "]"

\* django.utils.encoding.iri_to_uri: percent-encodes what a URI may not hold
\* (here the space) and leaves an already encoded path as it is.
IriToUri(path) ==
    CASE path = "/a b" -> "/a%20b"
      [] OTHER -> path

\* str.upper().replace('-', '_') on the header names that occur.
UpperUnderscore(name) ==
    CASE name = "Accept-Language" -> "ACCEPT_LANGUAGE"
      [] name = "accept-language" -> "ACCEPT_LANGUAGE"
      [] name = "Cookie" -> "COOKIE"
      [] name = "cookie" -> "COOKIE"
      [] OTHER -> name

\* What cc_delim_re (\s*,\s*) matches.
CcDelims == {",", ", ", " , "}

\* cc_delim_re.split(value): value is given as its pieces, each a run of text
\* without a comma or a delimiter; the text between two delimiters is one item.
RECURSIVE CcDelimSplitFrom(_, _, _)
CcDelimSplitFrom(pieces, i, cur) ==
    IF i > Len(pieces) THEN <<cur>>
    ELSE IF pieces[i] \in CcDelims
         THEN <<cur>> \o CcDelimSplitFrom(pieces, i + 1, "")
         ELSE CcDelimSplitFrom(pieces, i + 1, cur \o pieces[i])

CcDelimSplit(pieces) == CcDelimSplitFrom(pieces, 1, "")

\* int(s) for the digit strings that occur; <<>> is ValueError.
IntOf(s) ==
    CASE s = "0" -> Some(0)
      [] s = "1" -> Some(1)
      [] s = "2" -> Some(2)
      [] s = "3" -> Some(3)
      [] s = "5" -> Some(5)
      [] s = "300" -> Some(300)
      [] OTHER -> None

\* str(n)
StrOf(n) ==
    CASE n = 0 -> "0"
      [] n = 1 -> "1"
      [] n = 2 -> "2"
      [] n = 3 -> "3"
      [] n = 5 -> "5"
      [] n = 300 -> "300"
      [] OTHER -> "n"

(***************************************************************************)
(* TwoPartCacheMiddlewareBase: the cache keys.                             *)
(***************************************************************************)
\* getattr(request, 'LANGUAGE_CODE', get_language())
LanguageOf(req) ==
    IF IsNone(req.LANGUAGE_CODE) THEN req.active_language ELSE req.LANGUAGE_CODE[1]

I18nCacheKeySuffixTzOnly(req, cache_key) ==
    IF settings.USE_TZ THEN cache_key \o "." \o req.timezone ELSE cache_key

I18nCacheKeySuffix(req, cache_key) ==
    LET k1 == IF settings.USE_I18N \/ settings.USE_L10N
              THEN cache_key \o "." \o LanguageOf(req)
              ELSE cache_key
    IN  IF settings.USE_TZ THEN k1 \o "." \o req.timezone ELSE k1

\* ctx.update(value) for every header of the list the request carries
RECURSIVE HeaderValuesFrom(_, _, _)
HeaderValuesFrom(req, headerlist, i) ==
    IF i > Len(headerlist) THEN ""
    ELSE LET value == Get(req.META, headerlist[i])
         IN  (IF IsNone(value) THEN "" ELSE value[1])
                 \o HeaderValuesFrom(req, headerlist, i + 1)

RECURSIVE AllHeaderValuesFrom(_, _)
AllHeaderValuesFrom(req, names) ==
    IF names = {} THEN ""
    ELSE LET n == CHOOSE x \in names : TRUE
         IN  req.META[n] \o AllHeaderValuesFrom(req, names \ {n})

HeaderValuesOfAll(req, headerlist) == AllHeaderValuesFrom(req, DOMAIN req.META)

HeaderValues(req, headerlist) == HeaderValuesFrom(req, headerlist, 1)

GenerateCacheKey(req, method, headerlist, key_prefix) ==
    I18nCacheKeySuffix(req,
        "views.decorators.cache.cache_page." \o key_prefix \o "." \o method
            \o "." \o MD5(IriToUri(req.path))
            \o "." \o MD5(HeaderValues(req, headerlist)))

GenerateCacheHeaderKey(key_prefix, req) ==
    I18nCacheKeySuffix(req,
        "views.decorators.cache.cache_header." \o key_prefix
            \o "." \o MD5(IriToUri(req.path)))

\* cache.get(key, None) on the backend contents c
CacheGet(c, key) == IF key \in DOMAIN c THEN Some(c[key].value) ELSE None

GetCacheKeyNoListAsEmpty(req, key_prefix, method, c) ==
    LET headerlist == CacheGet(c, GenerateCacheHeaderKey(key_prefix, req))
    IN  Some(GenerateCacheKey(req, method,
                 IF IsNone(headerlist) THEN <<>> ELSE headerlist[1], key_prefix))

\* get_cache_key: the page key, or None when no header list is on file.
\* It reads the header-list key once.
GetCacheKey(req, key_prefix, method, c) ==
    LET headerlist == CacheGet(c, GenerateCacheHeaderKey(key_prefix, req))
    IN  IF ~IsNone(headerlist)
        THEN Some(GenerateCacheKey(req, method, headerlist[1], key_prefix))
        ELSE None

\* self.key_prefix
Prefix == middleware.key_prefix

(***************************************************************************)
(* FetchFromCacheMiddleware.process_request: the methods it looks up, the  *)
(* backend calls the handlers make.                                        *)
(***************************************************************************)
CachedMethodsAndPost == {"GET", "HEAD", "POST"}

CachedMethods == {"GET", "HEAD"}

IsCachedMethodAny(method) == TRUE

IsCachedMethod(method) == method \in CachedMethods

GetOp(key) == [op |-> "get", key |-> key]

SetOp(key) == [op |-> "set", key |-> key]

FirstLookupMethodOwn(req) == req.method

\* The method of the page key process_request reads first, whatever the
\* request's method is.
FirstLookupMethod(req) == "GET"

(***************************************************************************)
(* django.utils.cache helpers used by process_response.  A response is a   *)
(* record [status_code, content, headers, render]: headers maps the names  *)
(* of the headers present to their values, render says whether the         *)
(* response has a callable render attribute (its body is rendered later).  *)
(* The Vary header is held as its pieces (see CcDelimSplit), Cache-Control *)
(* as a map from directive name to the directive's text value.             *)
(***************************************************************************)
HasHeader(response, name) == name \in DOMAIN response.headers

\* get_max_age: the max-age directive as an integer, None if there is none
\* or it is no integer.
GetMaxAge(response) ==
    IF ~HasHeader(response, "Cache-Control") THEN None
    ELSE IF ~Has(response.headers["Cache-Control"], "max-age") THEN None
    ELSE IntOf(response.headers["Cache-Control"]["max-age"])

\* patch_cache_control(response, max_age=cache_timeout): an existing max-age
\* is kept when it is smaller.
PatchCacheControl(response, max_age) ==
    LET cc == IF HasHeader(response, "Cache-Control")
              THEN response.headers["Cache-Control"] ELSE EmptyMap
        old == IF Has(cc, "max-age") THEN IntOf(cc["max-age"]) ELSE None
        new == IF IsNone(old) THEN max_age ELSE Min(old[1], max_age)
    IN  [response EXCEPT !.headers = Put(@, "Cache-Control", Put(cc, "max-age", StrOf(new)))]

SetDefault(headers, name, value) ==
    IF name \in DOMAIN headers THEN headers ELSE Put(headers, name, value)

\* patch_response_headers: ETag, Last-Modified and Expires are added when the
\* response does not carry them, max-age is patched into Cache-Control.  Times
\* are relative to the moment of the call: Expires is "now+<timeout>".
PatchResponseHeaders(response, cache_timeout) ==
    LET timeout == IF cache_timeout < 0 THEN 0 ELSE cache_timeout
        h1 == SetDefault(response.headers, "ETag", MD5(response.content))
        h2 == SetDefault(h1, "Last-Modified", "now")
        h3 == SetDefault(h2, "Expires", "now+" \o StrOf(timeout))
    IN  PatchCacheControl([response EXCEPT !.headers = h3], timeout)

(***************************************************************************)
(* UpdateCacheMiddleware.                                                  *)
(***************************************************************************)
SessionAccessedIfPresent(who) == who.session # "absent"

\* _session_accessed: request.session.accessed, False without a session.
\* who.session is "absent", "untouched" or "accessed".
SessionAccessed(who) == who.session = "accessed"

ShouldUpdateCacheUnlessFalse(flag, who) ==
    IF flag = "false" THEN "false"
    ELSE IF middleware.cache_anonymous_only /\ SessionAccessed(who)
    THEN IF who.user = "absent" THEN "raise"
         ELSE IF who.user = "authenticated" THEN "false"
         ELSE "true"
    ELSE "true"

\* _should_update_cache: "true", "false", or "raise" when the assertion on
\* request.user fails.  who.user is "absent", "anonymous" or "authenticated".
ShouldUpdateCache(flag, who) ==
    IF flag # "true" THEN "false"
    ELSE IF middleware.cache_anonymous_only /\ SessionAccessed(who)
    THEN IF who.user = "absent" THEN "raise"
         ELSE IF who.user = "authenticated" THEN "false"
         ELSE "true"
    ELSE "true"

LearnHeaderListReversed(response) ==
    IF HasHeader(response, "Vary")
    THEN LET names == CcDelimSplit(response.headers["Vary"])
         IN  [i \in 1..Len(names) |->
                 "HTTP_" \o UpperUnderscore(names[Len(names) + 1 - i])]
    ELSE <<>>

\* The header list learn_cache_key derives from the response.
LearnHeaderList(response) ==
    IF HasHeader(response, "Vary")
    THEN LET names == CcDelimSplit(response.headers["Vary"])
         IN  [i \in 1..Len(names) |-> "HTTP_" \o UpperUnderscore(names[i])]
    ELSE <<>>

LearnCacheKeyDefaultTimeout(req, response, cache_timeout, key_prefix) ==
    [header_key |-> GenerateCacheHeaderKey(key_prefix, req),
     headerlist |-> LearnHeaderList(response),
     timeout |-> middleware.cache_timeout,
     cache_key |-> GenerateCacheKey(req, req.method, LearnHeaderList(response), key_prefix)]

\* learn_cache_key: the header-list entry it sets and the page key it returns.
LearnCacheKey(req, response, cache_timeout, key_prefix) ==
    LET headerlist == LearnHeaderList(response)
    IN  [header_key |-> GenerateCacheHeaderKey(key_prefix, req),
         headerlist |-> headerlist,
         timeout |-> cache_timeout,
         cache_key |-> GenerateCacheKey(req, req.method, headerlist, key_prefix)]

\* The timeout process_response resolves from get_max_age's result: the
\* max-age if there is one, else self.cache_timeout; None when max-age is 0 and the
\* response is not to be cached.
ResolveTimeout(max_age) ==
    IF IsNone(max_age) THEN Some(middleware.cache_timeout)
    ELSE IF max_age[1] = 0 THEN None
    ELSE max_age

Returns(response) ==
    [outcome |-> "return", response |-> response,
     learn |-> None, store |-> None, defer |-> None]

LearnAndStoreAtOnce(req, patched, timeout) ==
    LET learnt == LearnCacheKey(req, patched, timeout, Prefix)
        page == [key |-> learnt.cache_key, value |-> patched, timeout |-> timeout,
                 request |-> req, headerlist |-> learnt.headerlist]
    IN  [Returns(patched) EXCEPT !.learn = Some(learnt), !.store = Some(page)]

\* The learn and store steps of process_response, taken when the timeout is
\* not 0: the header list is set, the page is set now or after rendering.
LearnAndStore(req, patched, timeout) ==
    LET learnt == LearnCacheKey(req, patched, timeout, Prefix)
        page == [key |-> learnt.cache_key, value |-> patched, timeout |-> timeout,
                 request |-> req, headerlist |-> learnt.headerlist]
    IN  IF patched.render
        THEN [Returns(patched) EXCEPT !.learn = Some(learnt), !.defer = Some(page)]
        ELSE [Returns(patched) EXCEPT !.learn = Some(learnt), !.store = Some(page)]

ProcessResponseStoringAlways(req, flag, response, who) ==
    LET should == ShouldUpdateCache(flag, who)
        timeout == ResolveTimeout(GetMaxAge(response))
    IN  IF should = "raise" THEN [Returns(response) EXCEPT !.outcome = "raise"]
        ELSE IF should = "false" THEN Returns(response)
        ELSE IF response.status_code # 200 THEN Returns(response)
        ELSE IF IsNone(timeout) THEN Returns(response)
        ELSE LearnAndStore(req, PatchResponseHeaders(response, timeout[1]), timeout[1])

\* process_response as a function of the request, its flag, the response and
\* the session/user state: what it returns (or that it raises), the header
\* list it sets, the page it sets now, the page set it defers to rendering.
ProcessResponse(req, flag, response, who) ==
    LET should == ShouldUpdateCache(flag, who)
        timeout == ResolveTimeout(GetMaxAge(response))
    IN  IF should = "raise" THEN [Returns(response) EXCEPT !.outcome = "raise"]
        ELSE IF should = "false" THEN Returns(response)
        ELSE IF response.status_code # 200 THEN Returns(response)
        ELSE IF IsNone(timeout) THEN Returns(response)
        ELSE LET patched == PatchResponseHeaders(response, timeout[1])
             IN  IF timeout[1] # 0
                 THEN LearnAndStore(req, patched, timeout[1])
                 ELSE Returns(patched)

(***************************************************************************)
(* The middleware instance.  The two-part classes read every attribute     *)
(* from the settings; CacheMiddleware takes them from its arguments, where *)
(* an argument that is absent and one that is None are told apart.         *)
(***************************************************************************)
\* django.core.cache.DEFAULT_CACHE_ALIAS
DefaultCacheAlias == "default"

\* get_cache(alias, **cache_kwargs).default_timeout: the TIMEOUT argument when
\* there is one, else the TIMEOUT of the alias in settings.CACHES, else the
\* backend's own default of 300 seconds.
DefaultTimeout(conf, alias, timeout) ==
    IF ~IsNone(timeout) THEN timeout[1]
    ELSE IF Has(conf.CACHES, alias) /\ ~IsNone(conf.CACHES[alias]) THEN conf.CACHES[alias][1]
    ELSE 300

\* UpdateCacheMiddleware.__init__ and FetchFromCacheMiddleware.__init__
TwoPartInit(conf) ==
    [cache_timeout |-> conf.CACHE_MIDDLEWARE_SECONDS,
     key_prefix |-> conf.CACHE_MIDDLEWARE_KEY_PREFIX,
     cache_anonymous_only |-> conf.CACHE_MIDDLEWARE_ANONYMOUS_ONLY,
     cache_alias |-> conf.CACHE_MIDDLEWARE_ALIAS]

\* CacheMiddleware.__init__(cache_timeout=None, cache_anonymous_only=None,
\* **kwargs): kwargs maps the keyword arguments given to their values.
\* self.cache_timeout is the default timeout of the cache object made: with a
\* cache_alias argument and no cache_timeout, the backend's, not the settings'.
CacheMiddlewareInit(conf, cache_timeout, cache_anonymous_only, kwargs) ==
    LET key_prefix == IF ~Has(kwargs, "key_prefix") THEN conf.CACHE_MIDDLEWARE_KEY_PREFIX
                      ELSE IF IsNone(kwargs["key_prefix"]) THEN ""
                      ELSE kwargs["key_prefix"][1]
        cache_alias == IF ~Has(kwargs, "cache_alias") THEN conf.CACHE_MIDDLEWARE_ALIAS
                       ELSE IF IsNone(kwargs["cache_alias"]) THEN DefaultCacheAlias
                       ELSE kwargs["cache_alias"][1]
        TIMEOUT == IF Has(kwargs, "cache_alias") THEN cache_timeout
                   ELSE IF IsNone(cache_timeout) THEN Some(conf.CACHE_MIDDLEWARE_SECONDS)
                   ELSE cache_timeout
    IN  [cache_timeout |-> DefaultTimeout(conf, cache_alias, TIMEOUT),
         key_prefix |-> key_prefix,
         cache_anonymous_only |-> IF IsNone(cache_anonymous_only)
                                  THEN conf.CACHE_MIDDLEWARE_ANONYMOUS_ONLY
                                  ELSE cache_anonymous_only[1],
         cache_alias |-> cache_alias]

\* The ways the middleware is installed: the two-part classes in
\* MIDDLEWARE_CLASSES, or CacheMiddleware called with arguments.
TwoPart == [class |-> "two-part", cache_timeout |-> None, cache_anonymous_only |-> None,
            kwargs |-> EmptyMap]

Combined(cache_timeout, cache_anonymous_only, kwargs) ==
    [class |-> "CacheMiddleware", cache_timeout |-> cache_timeout,
     cache_anonymous_only |-> cache_anonymous_only, kwargs |-> kwargs]

Construct(conf, how) ==
    IF how.class = "two-part" THEN TwoPartInit(conf)
    ELSE CacheMiddlewareInit(conf, how.cache_timeout, how.cache_anonymous_only, how.kwargs)

(***************************************************************************)
(* The state machine.  A slot carries one request through the pipeline:    *)
(* process_request, then the handler on a miss, then process_response,     *)
(* then the rendering of a response whose body is rendered late.  Requests *)
(* in different slots run in different threads: every backend call of a    *)
(* handler is one step, and between two backend calls of one handler call  *)
(* the calls of the others, and the backend's expiry, may happen.          *)
(* frame[s] holds the local variables of the call under way and keeps them *)
(* after the call returned, until the slot's next request.                 *)
(***************************************************************************)
NoRequest ==
    [method |-> "", path |-> "", META |-> EmptyMap, LANGUAGE_CODE |-> None,
     active_language |-> "", timezone |-> ""]

NoWho == [session |-> "absent", user |-> "absent"]

\* The record of a handler call, made on the step it returns or raises:
\* follows is the page store that was the backend's last change when the
\* request arrived, quiet says that the backend did not change under the call,
\* beside that a call of process_response that writes began while the call of
\* another request was between its backend calls.
NoCall ==
    [handler |-> "none", slot |-> "", request |-> NoRequest, flag |-> "unset",
     who |-> NoWho, given |-> None, outcome |-> "", returned |-> None,
     follows |-> None, quiet |-> TRUE, beside |-> FALSE]

\* The local variables of a handler call that has not read or resolved
\* anything yet: the header list and page key of the first and of the second
\* get_cache_key of process_request (reads counts the header-list reads made),
\* the learn step, page store or deferred store process_response resolved
\* with the response it returns, the session/user state and the response it
\* was called with, and the backend calls it has made so far; beside is kept
\* while the call is under way and passes to the record of the call.
NoFrame ==
    [reads |-> 0, list1 |-> None, key1 |-> None, list2 |-> None, key2 |-> None,
     learn |-> None, store |-> None, defer |-> None, response |-> None,
     who |-> NoWho, given |-> None, ops |-> <<>>, follows |-> None, quiet |-> TRUE,
     beside |-> FALSE]

\* cache.set(key, value, timeout) of a header list
SetHeaderList(c, learnt) ==
    Put(c, learnt.header_key,
        [kind |-> "headerlist", value |-> learnt.headerlist, timeout |-> learnt.timeout])

SetPageIfAbsent(c, page) ==
    IF page.key \in DOMAIN c THEN c
    ELSE Put(c, page.key,
             [kind |-> "page", value |-> page.value, timeout |-> page.timeout,
              request |-> page.request, headerlist |-> page.headerlist])

\* cache.set(key, value, timeout) of a page; request and headerlist record the
\* request and the header list the key was derived from.
SetPage(c, page) ==
    Put(c, page.key,
        [kind |-> "page", value |-> page.value, timeout |-> page.timeout,
         request |-> page.request, headerlist |-> page.headerlist])

\* Start-up: the settings are loaded, the middleware is constructed, the
\* backend is empty.
InitWith(setting_choices, constructions) ==
    /\ settings \in setting_choices
    /\ \E how \in constructions : middleware = Construct(settings, how)
    /\ cache = EmptyMap
    /\ pc = [s \in Slots |-> "idle"]
    /\ request = [s \in Slots |-> NoRequest]
    /\ update = [s \in Slots |-> "unset"]
    /\ hit = [s \in Slots |-> None]
    /\ callback = [s \in Slots |-> None]
    /\ frame = [s \in Slots |-> NoFrame]
    /\ last = NoCall
    /\ ops = <<>>
    /\ stored = None
    /\ nreq = 0

\* Where a handler call under way can be
InRequest == {"process_request", "get_cache_key", "get_page", "head_get_cache_key",
              "head_get_page"}

InResponse == {"learn", "store"}

\* The frames after the call in slot s made the backend call op: a call that
\* changes the backend is seen by the calls under way in the other slots.
FramesAfter(s, op, changes) ==
    [t \in Slots |->
        IF t = s THEN [frame[t] EXCEPT !.ops = Append(@, op)]
        ELSE IF changes /\ pc[t] \in InRequest \cup InResponse
             THEN [frame[t] EXCEPT !.quiet = FALSE]
        ELSE frame[t]]

\* The frames after the backend changed outside of every handler call
FramesDisturbed ==
    [t \in Slots |->
        IF pc[t] \in InRequest \cup InResponse THEN [frame[t] EXCEPT !.quiet = FALSE]
        ELSE frame[t]]

Step(s) == [NoCall EXCEPT !.handler = "step", !.slot = s, !.request = request[s]]

\* A backend call that raises instead of returning
RaisedOp(op, key) == [op |-> op \o " raises", key |-> key]

\* A request object is made: it has no _cache_update_cache attribute yet.
Arrive(s, req, max) ==
    /\ pc[s] = "idle"
    /\ nreq < max
    /\ pc' = [pc EXCEPT ![s] = "process_request"]
    /\ request' = [request EXCEPT ![s] = req]
    /\ update' = [update EXCEPT ![s] = "unset"]
    /\ hit' = [hit EXCEPT ![s] = None]
    /\ frame' = [frame EXCEPT ![s] = [NoFrame EXCEPT !.follows = stored]]
    /\ nreq' = nreq + 1
    /\ ops' = <<>>
    /\ last' = [NoCall EXCEPT !.handler = "arrive", !.slot = s, !.request = req]
    /\ UNCHANGED <<settings, middleware, cache, callback, stored>>

\* A request reaches the response phase without process_request having run on
\* it (the fetch middleware is not installed, or an earlier middleware
\* answered): request._cache_update_cache does not exist.
Bypass(s, req, max) ==
    /\ pc[s] = "idle"
    /\ nreq < max
    /\ pc' = [pc EXCEPT ![s] = "respond"]
    /\ request' = [request EXCEPT ![s] = req]
    /\ update' = [update EXCEPT ![s] = "unset"]
    /\ hit' = [hit EXCEPT ![s] = None]
    /\ frame' = [frame EXCEPT ![s] = NoFrame]
    /\ nreq' = nreq + 1
    /\ ops' = <<>>
    /\ last' = [NoCall EXCEPT !.handler = "bypass", !.slot = s, !.request = req]
    /\ UNCHANGED <<settings, middleware, cache, callback, stored>>

\* process_request assigns the flag and returns.
ReturnFromRequest(s, flag, response) ==
    /\ update' = [update EXCEPT ![s] = flag]
    /\ hit' = [hit EXCEPT ![s] = response]
    /\ pc' = [pc EXCEPT ![s] = "respond"]
    /\ last' = [NoCall EXCEPT !.handler = "process_request", !.slot = s,
                    !.request = request[s], !.flag = flag,
                    !.outcome = "return", !.returned = response,
                    !.follows = frame[s].follows, !.quiet = frame[s].quiet]

AnswerWithFlagSet(s, response) == ReturnFromRequest(s, "true", response)

\* The end of process_request: a miss sets the flag, a hit clears it.
AnswerWith(s, response) ==
    ReturnFromRequest(s, IF IsNone(response) THEN "true" ELSE "false", response)

\* process_request up to its first backend call: the method test.
CheckMethod(s) ==
    /\ pc[s] = "process_request"
    /\ IF ~IsCachedMethod(request[s].method)
       THEN ReturnFromRequest(s, "false", None)
       ELSE /\ pc' = [pc EXCEPT ![s] = "get_cache_key"]
            /\ last' = Step(s)
            /\ UNCHANGED <<update, hit>>
    /\ ops' = <<>>
    /\ UNCHANGED <<settings, middleware, cache, request, callback, stored, nreq, frame>>

\* get_cache_key(request, key_prefix, 'GET'): the header list is read.
GetHeaderList(s) ==
    /\ pc[s] = "get_cache_key"
    /\ LET header_key == GenerateCacheHeaderKey(Prefix, request[s])
           headerlist == CacheGet(cache, header_key)
           cache_key == GetCacheKey(request[s], Prefix, FirstLookupMethod(request[s]), cache)
       IN  /\ ops' = Append(frame[s].ops, GetOp(header_key))
           /\ frame' = [FramesAfter(s, GetOp(header_key), FALSE) EXCEPT
                            ![s].reads = 1, ![s].list1 = headerlist,
                            ![s].key1 = cache_key]
           /\ IF IsNone(cache_key)
              THEN ReturnFromRequest(s, "true", None)
              ELSE /\ pc' = [pc EXCEPT ![s] = "get_page"]
                   /\ last' = Step(s)
                   /\ UNCHANGED <<update, hit>>
    /\ UNCHANGED <<settings, middleware, cache, request, callback, stored, nreq>>

GetPageConsumingHit(s) ==
    /\ pc[s] = "get_page"
    /\ LET response == CacheGet(cache, frame[s].key1[1])
       IN  /\ ops' = Append(frame[s].ops, GetOp(frame[s].key1[1]))
           /\ frame' = FramesAfter(s, GetOp(frame[s].key1[1]), ~IsNone(response))
           /\ cache' = IF IsNone(response) THEN cache ELSE Remove(cache, frame[s].key1[1])
           /\ IF IsNone(response) /\ request[s].method = "HEAD"
              THEN /\ pc' = [pc EXCEPT ![s] = "head_get_cache_key"]
                   /\ last' = Step(s)
                   /\ UNCHANGED <<update, hit>>
              ELSE AnswerWith(s, response)
    /\ UNCHANGED <<settings, middleware, request, callback, stored, nreq>>

\* cache.get(cache_key) of the GET page key.
GetPage(s) ==
    /\ pc[s] = "get_page"
    /\ LET response == CacheGet(cache, frame[s].key1[1])
       IN  /\ ops' = Append(frame[s].ops, GetOp(frame[s].key1[1]))
           /\ frame' = FramesAfter(s, GetOp(frame[s].key1[1]), FALSE)
           /\ IF IsNone(response) /\ request[s].method = "HEAD"
              THEN /\ pc' = [pc EXCEPT ![s] = "head_get_cache_key"]
                   /\ last' = Step(s)
                   /\ UNCHANGED <<update, hit>>
              ELSE AnswerWith(s, response)
    /\ UNCHANGED <<settings, middleware, cache, request, callback, stored, nreq>>

\* get_cache_key(request, key_prefix, 'HEAD'): the header list is read again.
HeadGetHeaderList(s) ==
    /\ pc[s] = "head_get_cache_key"
    /\ LET header_key == GenerateCacheHeaderKey(Prefix, request[s])
       IN  /\ ops' = Append(frame[s].ops, GetOp(header_key))
           /\ frame' = [FramesAfter(s, GetOp(header_key), FALSE) EXCEPT
                            ![s].reads = 2,
                            ![s].list2 = CacheGet(cache, header_key),
                            ![s].key2 = GetCacheKey(request[s], Prefix, "HEAD", cache)]
    /\ pc' = [pc EXCEPT ![s] = "head_get_page"]
    /\ last' = Step(s)
    /\ UNCHANGED <<settings, middleware, cache, request, update, hit, callback, stored, nreq>>

\* cache.get(cache_key) of the HEAD page key; the key is None when the second
\* get_cache_key found no header list, and nothing is on file under None.
HeadGetPage(s) ==
    /\ pc[s] = "head_get_page"
    /\ LET key == frame[s].key2
           op == GetOp(IF IsNone(key) THEN "None" ELSE key[1])
       IN  /\ ops' = Append(frame[s].ops, op)
           /\ frame' = FramesAfter(s, op, FALSE)
           /\ AnswerWith(s, IF IsNone(key) THEN None ELSE CacheGet(cache, key[1]))
    /\ UNCHANGED <<settings, middleware, cache, request, callback, stored, nreq>>

\* process_response up to its first backend call: it returns, raises, or has
\* patched the response and resolved what to learn and store.
BeginResponse(s, made, who) ==
    /\ pc[s] = "respond"
    /\ LET response == IF IsNone(hit[s]) THEN made ELSE hit[s][1]
       IN  \E res \in {ProcessResponse(request[s], update[s], response, who)} :
               LET begun == [frame[s] EXCEPT !.learn = res.learn, !.store = res.store,
                                             !.defer = res.defer,
                                             !.response = Some(res.response),
                                             !.who = who, !.given = Some(response),
                                             !.ops = <<>>, !.follows = None,
                                             !.quiet = TRUE,
                                             !.beside = /\ ~IsNone(res.learn)
                                                        /\ \E t \in Slots \ {s} :
                                                               pc[t] \in InResponse]
               IN  /\ frame' = [frame EXCEPT ![s] = begun]
                   /\ IF IsNone(res.learn)
                      THEN /\ pc' = [pc EXCEPT ![s] = "idle"]
                           /\ last' = [NoCall EXCEPT
                                           !.handler = "process_response", !.slot = s,
                                           !.request = request[s], !.flag = update[s],
                                           !.who = who, !.given = Some(response),
                                           !.outcome = res.outcome,
                                           !.returned = IF res.outcome = "raise" THEN None
                                                        ELSE Some(res.response)]
                      ELSE /\ pc' = [pc EXCEPT ![s] = "learn"]
                           /\ last' = Step(s)
    /\ ops' = <<>>
    /\ UNCHANGED <<settings, middleware, cache, request, update, hit, callback, stored, nreq>>

\* learn_cache_key: cache.set of the header list.
LearnStep(s) ==
    /\ pc[s] = "learn"
    /\ cache' = SetHeaderList(cache, frame[s].learn[1])
    /\ ops' = Append(frame[s].ops, SetOp(frame[s].learn[1].header_key))
    /\ frame' = FramesAfter(s, SetOp(frame[s].learn[1].header_key), TRUE)
    /\ stored' = None
    /\ pc' = [pc EXCEPT ![s] = "store"]
    /\ last' = Step(s)
    /\ UNCHANGED <<settings, middleware, request, update, hit, callback, nreq>>

\* The page is set, or the callback that sets it is registered, and
\* process_response returns.
StoreStep(s) ==
    /\ pc[s] = "store"
    /\ IF IsNone(frame[s].store)
       THEN /\ callback' = [callback EXCEPT ![s] = frame[s].defer]
            /\ pc' = [pc EXCEPT ![s] = "render"]
            /\ ops' = frame[s].ops
            /\ UNCHANGED <<cache, stored, frame>>
       ELSE /\ cache' = SetPage(cache, frame[s].store[1])
            /\ stored' = IF frame[s].quiet THEN frame[s].store ELSE None
            /\ pc' = [pc EXCEPT ![s] = "idle"]
            /\ ops' = Append(frame[s].ops, SetOp(frame[s].store[1].key))
            /\ frame' = [FramesAfter(s, SetOp(frame[s].store[1].key), TRUE)
                             EXCEPT ![s].beside = FALSE]
            /\ UNCHANGED callback
    /\ last' = [NoCall EXCEPT !.handler = "process_response", !.slot = s,
                    !.request = request[s], !.flag = update[s],
                    !.who = frame[s].who, !.given = frame[s].given,
                    !.outcome = "return", !.returned = frame[s].response,
                    !.quiet = frame[s].quiet, !.beside = frame[s].beside]
    /\ UNCHANGED <<settings, middleware, request, update, hit, nreq>>

\* response.render(): the body is baked; the callbacks are then called with
\* the rendered response.
Rendered(response) == [response EXCEPT !.content = "rendered " \o @]

\* The response is rendered and its post-render callback sets the page: the
\* callback stores the response it is called with, under the key and timeout
\* process_response bound.
Render(s) ==
    /\ pc[s] = "render"
    /\ cache' = SetPage(cache, [callback[s][1] EXCEPT !.value = Rendered(@)])
    /\ ops' = <<SetOp(callback[s][1].key)>>
    /\ frame' = FramesDisturbed
    /\ stored' = None
    /\ last' = [NoCall EXCEPT !.handler = "render", !.slot = s, !.request = request[s],
                    !.outcome = "return",
                    !.returned = Some(Rendered(callback[s][1].value))]
    /\ pc' = [pc EXCEPT ![s] = "idle"]
    /\ callback' = [callback EXCEPT ![s] = None]
    /\ UNCHANGED <<settings, middleware, request, update, hit, nreq>>

\* The backend drops an entry: its timeout has passed, or it was evicted.
Expire(key) ==
    /\ key \in DOMAIN cache
    /\ cache' = Remove(cache, key)
    /\ ops' = <<>>
    /\ frame' = FramesDisturbed
    /\ stored' = None
    /\ last' = [NoCall EXCEPT !.handler = "expire"]
    /\ UNCHANGED <<settings, middleware, pc, request, update, hit, callback, nreq>>

\* The key of the backend read the call in slot s is about to make
KeyToGet(s) ==
    CASE pc[s] = "get_page" -> frame[s].key1[1]
      [] pc[s] = "head_get_page" /\ ~IsNone(frame[s].key2) -> frame[s].key2[1]
      [] pc[s] = "head_get_page" /\ IsNone(frame[s].key2) -> "None"
      [] OTHER -> GenerateCacheHeaderKey(Prefix, request[s])

\* cache.get raises (the backend is down, a connection breaks).  Nothing in
\* get_cache_key or process_request catches the exception: it leaves
\* process_request before the flag is assigned.
GetRaises(s) ==
    /\ pc[s] \in {"get_cache_key", "get_page", "head_get_cache_key", "head_get_page"}
    /\ ops' = Append(frame[s].ops, RaisedOp("get", KeyToGet(s)))
    /\ frame' = FramesAfter(s, RaisedOp("get", KeyToGet(s)), FALSE)
    /\ last' = [NoCall EXCEPT !.handler = "process_request", !.slot = s,
                    !.request = request[s], !.flag = update[s],
                    !.outcome = "raise", !.returned = None]
    /\ pc' = [pc EXCEPT ![s] = "idle"]
    /\ UNCHANGED <<settings, middleware, cache, request, update, hit, callback, stored, nreq>>

\* cache.set raises.  Nothing in learn_cache_key or process_response catches
\* the exception: it leaves process_response and no response is returned.
SetRaises(s) ==
    /\ \/ pc[s] = "learn"
       \/ pc[s] = "store" /\ ~IsNone(frame[s].store)
    /\ LET op == RaisedOp("set", IF pc[s] = "learn" THEN frame[s].learn[1].header_key
                                 ELSE frame[s].store[1].key)
       IN  /\ ops' = Append(frame[s].ops, op)
           /\ frame' = FramesAfter(s, op, FALSE)
    /\ last' = [NoCall EXCEPT !.handler = "process_response", !.slot = s,
                    !.request = request[s], !.flag = update[s],
                    !.who = frame[s].who, !.given = frame[s].given,
                    !.outcome = "raise", !.returned = None]
    /\ pc' = [pc EXCEPT ![s] = "idle"]
    /\ UNCHANGED <<settings, middleware, cache, request, update, hit, callback, stored, nreq>>

\* The steps of the handlers over given slots, requests, handler responses
\* and session/user states, for at most max requests: those every request
\* can take, and those of the second lookup, which only a HEAD request takes.
CommonStepsOver(slots, requests, responses, whos, max) ==
    \/ \E s \in slots, req \in requests : Arrive(s, req, max)
    \/ \E s \in slots : CheckMethod(s)
    \/ \E s \in slots : GetHeaderList(s)
    \/ \E s \in slots : GetPage(s)
    \/ \E s \in slots, made \in responses, who \in whos : BeginResponse(s, made, who)
    \/ \E s \in slots : LearnStep(s)
    \/ \E s \in slots : StoreStep(s)

HeadStepsOver(slots) ==
    \/ \E s \in slots : HeadGetHeaderList(s)
    \/ \E s \in slots : HeadGetPage(s)

StepsOver(slots, requests, responses, whos, max) ==
    \/ CommonStepsOver(slots, requests, responses, whos, max)
    \/ HeadStepsOver(slots)

\* The steps of the pipeline over given slots, requests, handler responses and
\* session/user states, for at most max requests: the handlers' steps, the
\* requests that skip process_request, the rendering of late-rendered
\* responses, the backend's expiry.
PipelineOver(slots, requests, responses, whos, max) ==
    \/ StepsOver(slots, requests, responses, whos, max)
    \/ \E s \in slots, req \in requests : Bypass(s, req, max)
    \/ \E s \in slots : Render(s)
    \/ \E key \in DOMAIN cache : Expire(key)

(***************************************************************************)
(* The requests, responses and settings the model runs on.                 *)
(***************************************************************************)
\* The maps from some of the names to the values
MapsOver(names, values) == UNION {[d -> values] : d \in SUBSET names}

RequestsOver(methods, paths, metas, languages) ==
    [method : methods, path : paths, META : metas,
     LANGUAGE_CODE : {Some(l) : l \in languages},
     active_language : {"en-us"}, timezone : {"UTC"}]

ResponsesOver(statuses, contents, varys, cache_controls, renders) ==
    {[status_code |-> st, content |-> b, headers |-> v @@ cc, render |-> r] :
        st \in statuses, b \in contents, v \in varys, cc \in cache_controls,
        r \in renders}

NoHeader == EmptyMap

Vary(pieces) == [Vary |-> pieces]

MaxAge(text) == "Cache-Control" :> ("max-age" :> text)

\* The settings of a site: one cache, "default", configured without a TIMEOUT
BaseSettings ==
    [CACHE_MIDDLEWARE_SECONDS |-> 1, CACHE_MIDDLEWARE_KEY_PREFIX |-> "site",
     CACHE_MIDDLEWARE_ANONYMOUS_ONLY |-> FALSE,
     CACHE_MIDDLEWARE_ALIAS |-> "default", CACHES |-> [default |-> None],
     USE_I18N |-> FALSE, USE_L10N |-> FALSE, USE_TZ |-> FALSE]

Anyone == {NoWho}

\* The pipeline: every method, handlers that answer 200 or 404, with or
\* without a Vary header, rendered now or late, two requests in flight at a
\* time.
PipelineRequests ==
    RequestsOver({"GET", "HEAD", "POST"}, {"/a b"}, {"HTTP_COOKIE" :> "x"}, {"en"})

PipelineResponses ==
    ResponsesOver({200}, {"b1"}, {Vary(<<"Cookie">>)}, {NoHeader}, BOOLEAN)
        \cup ResponsesOver({404}, {"b1"}, {NoHeader}, {NoHeader}, {FALSE})

Init == InitWith({BaseSettings}, {TwoPart})

Next == PipelineOver(Slots, PipelineRequests, PipelineResponses, Anyone, MaxRequests)

Spec == Init /\ [][Next]_vars

\* The store policy: one request at a time, every freshness directive, every
\* session/user state, default timeouts and the anonymous-only policy from
\* the settings or from the arguments of CacheMiddleware.
PolicySettings ==
    {[BaseSettings EXCEPT !.CACHE_MIDDLEWARE_SECONDS = t,
                          !.CACHE_MIDDLEWARE_ANONYMOUS_ONLY = a] :
        t \in {0, 1}, a \in BOOLEAN}

PolicyConstructions ==
    {TwoPart,
     Combined(None, None, EmptyMap),
     Combined(Some(2), Some(TRUE), EmptyMap),
     Combined(Some(0), Some(FALSE), "cache_alias" :> Some("default")),
     Combined(None, None, "cache_alias" :> None),
     Combined(Some(5), None, ("key_prefix" :> None) @@ ("cache_alias" :> None))}

PolicyRequests == RequestsOver({"GET", "POST"}, {"/a b"}, {EmptyMap}, {"en"})

PolicyResponses ==
    ResponsesOver({200}, {"b1"}, {NoHeader},
                  {NoHeader, MaxAge("0"), MaxAge("2")}, BOOLEAN)

PolicyWho ==
    {[session |-> "absent", user |-> "absent"],
     [session |-> "untouched", user |-> "absent"],
     [session |-> "untouched", user |-> "authenticated"],
     [session |-> "accessed", user |-> "absent"],
     [session |-> "accessed", user |-> "anonymous"],
     [session |-> "accessed", user |-> "authenticated"]}

PolicyInit == InitWith(PolicySettings, PolicyConstructions)

PolicyNext ==
    \/ CommonStepsOver({"s1"}, PolicyRequests, PolicyResponses, PolicyWho, MaxPolicyRequests)
    \/ \E req \in PolicyRequests : Bypass("s1", req, MaxPolicyRequests)
    \/ Render("s1")
    \/ \E key \in DOMAIN cache : Expire(key)

PolicySpec == PolicyInit /\ [][PolicyNext]_vars

\* Header variance: GET requests, one at a time, that differ in the two
\* headers a response may vary on, handlers whose Vary header changes over
\* time, entries that expire at any moment.
VaryRequests ==
    RequestsOver({"GET"}, {"/a b"},
                 {m \in MapsOver({"HTTP_ACCEPT_LANGUAGE", "HTTP_COOKIE"}, {"x", "xx"}) :
                     "HTTP_ACCEPT_LANGUAGE" \in DOMAIN m},
                 {"en"})

VaryResponses ==
    ResponsesOver({200}, {"b1"},
                  {NoHeader, Vary(<<"Accept-Language">>),
                   Vary(<<"Accept-Language", ", ", "cookie">>)},
                  {NoHeader}, {FALSE})

VaryNext ==
    \/ CommonStepsOver({"s1"}, VaryRequests, VaryResponses, Anyone, MaxVaryRequests)
    \/ \E key \in DOMAIN cache : Expire(key)

VarySpec == Init /\ [][VaryNext]_vars

\* HEAD and GET: GET and HEAD requests without a cookie and a HEAD request
\* that differs in its Accept-Language header, two in flight at a time;
\* handlers that answer with or without "Vary: Cookie", so that the learned
\* header list is [HTTP_COOKIE] or empty; every backend call is a step and
\* entries expire at any moment, between any two steps.
HeadRequests ==
    RequestsOver({"GET", "HEAD"}, {"/a b"}, {EmptyMap}, {"en"})
        \cup RequestsOver({"HEAD"}, {"/a b"}, {"HTTP_ACCEPT_LANGUAGE" :> "x"}, {"en"})

HeadResponses ==
    ResponsesOver({200}, {"b1"}, {NoHeader, Vary(<<"Cookie">>)}, {NoHeader}, {FALSE})

HeadNext ==
    \/ StepsOver(Slots, HeadRequests, HeadResponses, Anyone, MaxHeadRequests)
    \/ \E key \in DOMAIN cache : Expire(key)

HeadSpec == Init /\ [][HeadNext]_vars

\* Locales and time zones: GET requests, one at a time, whose LANGUAGE_CODE
\* is missing, "en" or "es" while the active language is "en", in one of two
\* current time zones, under every setting of USE_I18N, USE_L10N and USE_TZ;
\* entries expire at any moment.
LocaleSettings ==
    {[BaseSettings EXCEPT !.USE_I18N = i, !.USE_L10N = l, !.USE_TZ = z] :
        i \in BOOLEAN, l \in BOOLEAN, z \in BOOLEAN}

LocaleRequests ==
    [method : {"GET"}, path : {"/a b"}, META : {EmptyMap},
     LANGUAGE_CODE : {None, Some("en"), Some("es")},
     active_language : {"en"}, timezone : {"UTC", "CET"}]

LocaleResponses == ResponsesOver({200}, {"b1"}, {NoHeader}, {NoHeader}, {FALSE})

LocaleInit == InitWith(LocaleSettings, {TwoPart})

LocaleNext ==
    \/ CommonStepsOver({"s1"}, LocaleRequests, LocaleResponses, Anyone, MaxLocaleRequests)
    \/ \E key \in DOMAIN cache : Expire(key)

LocaleSpec == LocaleInit /\ [][LocaleNext]_vars

\* Concurrent requests: two requests of any method to one path with the same
\* header values run at the same time, their backend calls interleave in
\* every order, and entries expire at any moment; the handler answers with
\* one of two bodies.
ConcRequests == RequestsOver({"GET", "HEAD", "POST"}, {"/a b"}, {EmptyMap}, {"en"})

ConcResponses == ResponsesOver({200}, {"b1", "b2"}, {NoHeader}, {NoHeader}, {FALSE})

ConcNext ==
    \/ StepsOver(Slots, ConcRequests, ConcResponses, Anyone, MaxRequests)
    \/ \E key \in DOMAIN cache : Expire(key)

ConcSpec == Init /\ [][ConcNext]_vars

\* HEAD requests racing with learn steps and expiry: HEAD requests to one
\* path, two in flight at a time, handlers whose Vary header changes, entries
\* that expire at any moment.
RaceRequests == RequestsOver({"HEAD"}, {"/a b"}, {"HTTP_COOKIE" :> "x"}, {"en"})

RaceResponses ==
    ResponsesOver({200}, {"b1"}, {NoHeader, Vary(<<"Cookie">>)}, {NoHeader}, {FALSE})

RaceNext ==
    \/ StepsOver(Slots, RaceRequests, RaceResponses, Anyone, MaxRaceRequests)
    \/ \E key \in DOMAIN cache : Expire(key)

RaceSpec == Init /\ [][RaceNext]_vars

\* Learning: GET and HEAD requests, one at a time, that carry both headers
\* with different values; handlers that vary on one header, on both in
\* either order and spelling, on a list with a trailing comma, or on nothing;
\* entries expire at any moment.
LearnRequests ==
    RequestsOver({"GET", "HEAD"}, {"/a b"},
                 {("HTTP_ACCEPT_LANGUAGE" :> "a") @@ ("HTTP_COOKIE" :> "b")}, {"en"})

LearnResponses ==
    ResponsesOver({200}, {"b1"},
                  {NoHeader, Vary(<<"Cookie">>),
                   Vary(<<"Accept-Language", ", ", "cookie">>),
                   Vary(<<"cookie", ",", "accept-language">>),
                   Vary(<<"Cookie", " , ">>)},
                  {NoHeader}, {FALSE})

LearnNext ==
    \/ StepsOver({"s1"}, LearnRequests, LearnResponses, Anyone, MaxLearnRequests)
    \/ \E key \in DOMAIN cache : Expire(key)

LearnSpec == Init /\ [][LearnNext]_vars

\* A backend that may fail: GET and HEAD requests, two in flight at a time, every
\* backend call of the handlers either returns or raises; entries expire at
\* any moment.
FailRequests == RequestsOver({"GET", "HEAD"}, {"/a b"}, {EmptyMap}, {"en"})

FailResponses == ResponsesOver({200}, {"b1"}, {NoHeader}, {NoHeader}, {FALSE})

FailNext ==
    \/ StepsOver(Slots, FailRequests, FailResponses, Anyone, MaxRequests)
    \/ \E s \in Slots : GetRaises(s)
    \/ \E s \in Slots : SetRaises(s)
    \/ \E key \in DOMAIN cache : Expire(key)

FailSpec == Init /\ [][FailNext]_vars

(***************************************************************************)
(* Properties.  last describes the handler call that returned or raised on *)
(* the step that made the current state, ops the backend calls that call   *)
(* made, in order: a property of a handler is an invariant on them.        *)
(* last.quiet tells that no other request's write and no expiry changed    *)
(* the backend between the arrival of the request and the return of the    *)
(* call: then the backend of the current state is the one every read of    *)
(* the call saw.                                                           *)
(***************************************************************************)
PageKeys == {k \in DOMAIN cache : cache[k].kind = "page"}

AfterFetch == last.handler = "process_request"

AfterRespond == last.handler = "process_response"

\* The writes the last call made: none to the backend, no callback registered.
WroteNothing == ops = <<>> /\ IsNone(callback[last.slot])

\* C1: every page entry on file was written for a GET or HEAD request and
\* holds a response of status 200 (entries are written by process_response
\* and by the post-render callback it registers).
C1_OnlyGetHead200Stored ==
    \A k \in PageKeys :
        /\ cache[k].request.method \in {"GET", "HEAD"}
        /\ cache[k].value.status_code = 200

\* The late-rendered page of a HEAD request has just been written by the
\* callback process_response registered.
C1_Witness ==
    /\ last.handler = "render"
    /\ last.request.method = "HEAD"
    /\ ops # <<>>
    /\ ops[1].key \in PageKeys

\* C5: for a request whose method is not GET or HEAD, process_request sets the
\* flag to false, returns None and reads nothing from the backend.
C5_IneligibleMethodNoRead ==
    (AfterFetch /\ last.request.method \notin {"GET", "HEAD"}) =>
        /\ update[last.slot] = "false"
        /\ IsNone(hit[last.slot])
        /\ IsNone(last.returned)
        /\ ops = <<>>

\* process_request has run on a POST request while the header list and a page
\* of its path are on file.
C5_Witness ==
    /\ AfterFetch
    /\ last.request.method = "POST"
    /\ update[last.slot] = "false"
    /\ GenerateCacheHeaderKey(Prefix, last.request) \in DOMAIN cache
    /\ PageKeys # {}

\* C6: for a GET or HEAD request whose header-list entry is not on file
\* (the backend did not change under the call and holds no such entry, or
\* the call's read of the entry found nothing), process_request returns None
\* with the flag true and reads the header-list key only, no page key.
C6_NoHeaderListNoPageRead ==
    (/\ AfterFetch
     /\ last.request.method \in {"GET", "HEAD"}
     /\ \/ last.quiet /\ GenerateCacheHeaderKey(Prefix, last.request) \notin DOMAIN cache
        \/ frame[last.slot].reads >= 1 /\ IsNone(frame[last.slot].list1)) =>
        /\ update[last.slot] = "true"
        /\ IsNone(last.returned)
        /\ ops = <<GetOp(GenerateCacheHeaderKey(Prefix, last.request))>>

\* The header list is gone while the page stored for an equal request, under
\* the key the request had with the old header list, is still on file.
C6_Witness ==
    /\ AfterFetch
    /\ last.request.method \in {"GET", "HEAD"}
    /\ GenerateCacheHeaderKey(Prefix, last.request) \notin DOMAIN cache
    /\ \E k \in PageKeys :
          /\ cache[k].request = last.request
          /\ k = GenerateCacheKey(last.request, last.request.method,
                                  cache[k].headerlist, Prefix)
    /\ update[last.slot] = "true"

\* C10: process_response writes to the backend only when the flag is true; if
\* the flag is false or was never set it returns the response it was given,
\* unpatched, and writes nothing.
C10_WritesOnlyWhenFlagTrue ==
    AfterRespond =>
        /\ (last.flag # "true" =>
               /\ last.outcome = "return"
               /\ last.returned = last.given
               /\ WroteNothing)
        /\ (~WroteNothing => last.flag = "true")

\* process_response was given a storable response (200, max-age 2, default
\* timeout not 0) for a request process_request never saw.
C10_Witness ==
    /\ AfterRespond
    /\ last.flag = "unset"
    /\ last.given[1].status_code = 200
    /\ GetMaxAge(last.given[1]) = Some(2)
    /\ middleware.cache_timeout # 0
    /\ last.returned = last.given

\* The max-age directive of the response process_response was given
GivenMaxAge == GetMaxAge(last.given[1])

\* _should_update_cache fails its assertion on request.user (line 145): the
\* flag is true, the anonymous-only policy is on, the session was accessed
\* and the request has no user attribute.
AssertionFails ==
    /\ last.flag = "true"
    /\ middleware.cache_anonymous_only
    /\ last.who.session = "accessed"
    /\ last.who.user = "absent"

\* C8: given a response with max-age=0, process_response writes nothing and
\* returns the response unpatched, whatever the default timeout.  The code
\* does not return the response when the assertion of _should_update_cache
\* fails: the AssertionError leaves process_response.
C8_Original ==
    (AfterRespond /\ GivenMaxAge = Some(0)) =>
        /\ WroteNothing
        /\ last.outcome = "return"
        /\ last.returned = last.given

\* The failed assertion is the only way C8 fails: given a response with
\* max-age=0, process_response writes nothing, raises exactly when the
\* assertion fails, and otherwise returns the response unpatched.
MaxAgeZeroNeverStored ==
    (AfterRespond /\ GivenMaxAge = Some(0)) =>
        /\ WroteNothing
        /\ (last.outcome = "raise") = AssertionFails
        /\ (last.outcome = "return" => last.returned = last.given)

\* The response given is one process_response stores when nothing forbids it:
\* status 200 and a timeout that is not 0.
GivenStorable ==
    /\ last.given[1].status_code = 200
    /\ IF IsNone(GivenMaxAge) THEN middleware.cache_timeout # 0
       ELSE GivenMaxAge[1] # 0

\* The last call set the header list, and set the page or registered the
\* callback that sets it.
LearntAndStored ==
    /\ last.outcome = "return"
    /\ Len(ops) >= 1
    /\ ops[1] = SetOp(GenerateCacheHeaderKey(Prefix, last.request))
    /\ (Len(ops) = 2) # (~IsNone(callback[last.slot]))

\* C9: under the anonymous-only policy, a request whose session was accessed
\* and whose user is authenticated is never stored and its response comes
\* back unchanged; when the session was not accessed the user is not looked
\* at (it may be missing or authenticated) and a storable response is stored.
C9_AnonymousOnly ==
    (AfterRespond /\ middleware.cache_anonymous_only) =>
        /\ (last.who.session = "accessed" /\ last.who.user = "authenticated" =>
               /\ WroteNothing
               /\ last.outcome = "return"
               /\ last.returned = last.given)
        /\ (last.who.session # "accessed" /\ last.flag = "true" /\ GivenStorable =>
               LearntAndStored)

\* An authenticated user's storable response, flag true, session accessed,
\* came back from process_response under the policy.
C9_Witness ==
    /\ AfterRespond
    /\ middleware.cache_anonymous_only
    /\ last.who.session = "accessed"
    /\ last.who.user = "authenticated"
    /\ last.flag = "true"
    /\ GivenStorable
    /\ WroteNothing

\* The page store that was the backend's last change when the request of
\* the last call arrived
Followed == last.follows[1]

\* The page is on file as it was stored, and so is the header list it was
\* stored with.
OnFile(page) ==
    /\ page.key \in DOMAIN cache
    /\ cache[page.key].value = page.value
    /\ GenerateCacheHeaderKey(Prefix, page.request) \in DOMAIN cache
    /\ cache[GenerateCacheHeaderKey(Prefix, page.request)].value = page.headerlist

\* Request b has the path, method, locale and time zone of request a and the
\* same value, or absence, of every header of the list.
SameOnHeaders(a, b, headerlist) ==
    \A i \in 1..Len(headerlist) :
        Get(a.META, headerlist[i]) = Get(b.META, headerlist[i])

SameButOtherHeaders(a, b, headerlist) ==
    /\ a.path = b.path
    /\ a.method = b.method
    /\ LanguageOf(a) = LanguageOf(b)
    /\ a.timezone = b.timezone
    /\ SameOnHeaders(a, b, headerlist)

\* process_request ran right after a page store (the page and its header
\* list were on file as stored and the backend did not change under the
\* call), on a request that differs from the stored one at most in headers
\* that are not in the learned list.
RoundTrip ==
    /\ AfterFetch
    /\ ~IsNone(last.follows)
    /\ last.quiet
    /\ OnFile(Followed)
    /\ SameButOtherHeaders(last.request, Followed.request, Followed.headerlist)

\* C2 as stated: the request is answered with the response just stored and
\* the flag is set to false.
C2_Original ==
    RoundTrip =>
        /\ last.returned = Some(Followed.value)
        /\ update[last.slot] = "false"

\* C2 amended: the request is answered from the cache and the flag is set to
\* false; the answer is the response just stored, except for a HEAD request
\* when a GET page is on file for the same header values, which is returned
\* instead.
C2_RoundTripHit ==
    RoundTrip =>
        LET get_key == GenerateCacheKey(last.request, "GET", Followed.headerlist, Prefix)
        IN  /\ update[last.slot] = "false"
            /\ ~IsNone(last.returned)
            /\ IF last.request.method = "HEAD" /\ get_key \in DOMAIN cache
               THEN last.returned = Some(cache[get_key].value)
               ELSE last.returned = Some(Followed.value)

\* A request that differs from the stored one in a header outside the
\* learned list was answered with the stored response.
C2_Witness ==
    /\ RoundTrip
    /\ last.request.META # Followed.request.META
    /\ last.returned = Some(Followed.value)
    /\ update[last.slot] = "false"

\* The keys of the last request given the header list on file
HeaderKeyOfLast == GenerateCacheHeaderKey(Prefix, last.request)

PageKeyOfLast(method) ==
    GenerateCacheKey(last.request, method, cache[HeaderKeyOfLast].value, Prefix)

\* A HEAD request was looked up while the header list and a GET page for its
\* header values were on file, and no HEAD page, and the backend did not
\* change under the call.
HeadWithGetPageOnly ==
    /\ AfterFetch
    /\ last.quiet
    /\ last.request.method = "HEAD"
    /\ HeaderKeyOfLast \in DOMAIN cache
    /\ PageKeyOfLast("GET") \in DOMAIN cache
    /\ PageKeyOfLast("HEAD") \notin DOMAIN cache

\* C7 as stated: such a HEAD request is a miss: None is returned and the flag
\* is set to true.
C7_Original ==
    HeadWithGetPageOnly =>
        /\ IsNone(last.returned)
        /\ update[last.slot] = "true"

\* C7 amended: such a HEAD request is a hit on the GET page: the GET page is
\* returned, the flag is set to false, and the HEAD key is not read.
C7_HeadServedFromGetPage ==
    HeadWithGetPageOnly =>
        /\ last.returned = Some(cache[PageKeyOfLast("GET")].value)
        /\ update[last.slot] = "false"
        /\ ops = <<GetOp(HeaderKeyOfLast), GetOp(PageKeyOfLast("GET"))>>

\* The HEAD request was answered with the page a GET request stored.
C7_Witness ==
    /\ HeadWithGetPageOnly
    /\ ~IsNone(last.returned)
    /\ cache[PageKeyOfLast("GET")].request.method = "GET"

\* process_request answered the last request from the cache; the entry it
\* answered with is the one under the key it read last.
Hit == AfterFetch /\ ~IsNone(last.returned)

HitEntry == cache[ops[Len(ops)].key]

\* C3: while the header list a page was stored with is on file (and the
\* backend does not change under the call), process_request never answers
\* with that page a request that differs from the one it was stored for in
\* the value or presence of a header of the list.
C3_Original ==
    (Hit /\ last.quiet /\ HitEntry.headerlist = cache[HeaderKeyOfLast].value) =>
        SameOnHeaders(last.request, HitEntry.request, HitEntry.headerlist)

\* C4: every page process_request answers with was stored with the header
\* list that is on file for the path at the time of the hit (the backend not
\* changing under the call).
C4_Original ==
    (Hit /\ last.quiet) => HitEntry.headerlist = cache[HeaderKeyOfLast].value

\* The last backend call of the last handler call raised
Raised(op) == ops # <<>> /\ ops[Len(ops)].op = op \o " raises"

\* C11: a backend failure never fails the request: when a cache.get raises
\* during process_request, process_request returns None with the flag true;
\* when a cache.set raises during process_response, process_response still
\* returns the response.
C11_Original ==
    /\ (last.handler = "process_request" /\ Raised("get")) =>
           /\ last.outcome = "return"
           /\ IsNone(last.returned)
           /\ update[last.slot] = "true"
    /\ (last.handler = "process_response" /\ Raised("set")) =>
           /\ last.outcome = "return"
           /\ ~IsNone(last.returned)

\* The keys whose entry the step wrote: new on file, or on file with another
\* entry than before.
Written == {k \in DOMAIN cache' : k \notin DOMAIN cache \/ cache'[k] # cache[k]}

\* The call in slot s makes the step.
Steps(s) == pc'[s] # pc[s]

\* C12: process_request only reads: every step of it, on every path, leaves
\* the backend contents, the callbacks and the request as they were (its
\* backend calls are gets, its effect on the request is the flag).  A
\* header-list entry is written only by the learn step of process_response,
\* a page entry only by the store step of process_response, at once or
\* through the callback it registered.  No handler removes an entry: entries
\* go by expiry only.
C12_ProcessRequestOnlyReads ==
    [][/\ \A s \in Slots :
              (pc[s] \in InRequest /\ Steps(s)) =>
                  /\ cache' = cache
                  /\ callback' = callback
                  /\ request' = request
                  /\ \A i \in 1..Len(ops') : ops'[i].op = "get"
                  /\ pc'[s] \in InRequest \cup {"respond"}
       /\ \A k \in Written :
              IF cache'[k].kind = "headerlist"
              THEN \E s \in Slots : /\ pc[s] = "learn" /\ pc'[s] = "store"
                                     /\ ops'[Len(ops')] = SetOp(k)
              ELSE \E s \in Slots : /\ pc[s] \in {"store", "render"} /\ pc'[s] = "idle"
                                     /\ ops'[Len(ops')] = SetOp(k)
       /\ (DOMAIN cache \subseteq DOMAIN cache') \/ last'.handler = "expire"]_vars

\* process_request answered a request from the cache while the header list
\* and the page were on file, and both are still there.
C12_Witness ==
    /\ Hit
    /\ update[last.slot] = "false"
    /\ HeaderKeyOfLast \in DOMAIN cache
    /\ ops[Len(ops)].key \in PageKeys
    /\ HitEntry.value = last.returned[1]

\* The deployment keys by locale, by time zone
LocaleAware == settings.USE_I18N \/ settings.USE_L10N

ZoneAware == settings.USE_TZ

\* The suffix the keys of a request must end with
SuffixOf(req) ==
    (IF LocaleAware THEN "." \o LanguageOf(req) ELSE "")
        \o (IF ZoneAware THEN "." \o req.timezone ELSE "")

\* Requests a and b differ in a resolved locale or a time zone the
\* deployment is aware of.
OtherLocale(a, b) ==
    \/ LocaleAware /\ LanguageOf(a) # LanguageOf(b)
    \/ ZoneAware /\ a.timezone # b.timezone

\* C13: in a deployment aware of locales (of time zones) the header-list key
\* and the page key process_response writes end with the same suffix, the
\* resolved locale (the time zone) of the request; a request shares neither
\* its header-list key nor a page key with a page stored for a request of
\* another locale (time zone); process_request never answers a request with
\* a page stored for another locale (time zone).
C13_LocalePartition ==
    /\ (AfterRespond /\ Len(ops) = 2) =>
           /\ ops[1].key = "views.decorators.cache.cache_header.site."
                               \o MD5("/a%20b") \o SuffixOf(last.request)
           /\ ops[2].key = "views.decorators.cache.cache_page.site."
                               \o last.request.method \o "." \o MD5("/a%20b")
                               \o "." \o MD5("") \o SuffixOf(last.request)
    /\ \A k \in PageKeys :
           OtherLocale(cache[k].request, last.request) =>
               /\ HeaderKeyOfLast # GenerateCacheHeaderKey(Prefix, cache[k].request)
               /\ \A m \in CachedMethods :
                      k # GenerateCacheKey(last.request, m, cache[k].headerlist, Prefix)
    /\ Hit => ~OtherLocale(HitEntry.request, last.request)

\* In a locale-aware deployment a request was a miss although the page of a
\* request that differs from it in the locale only is on file, and it was
\* then stored under a key of its own.
C13_Witness ==
    /\ AfterRespond
    /\ LocaleAware
    /\ Len(ops) = 2
    /\ \E k \in PageKeys :
           /\ k # ops[2].key
           /\ LanguageOf(cache[k].request) # LanguageOf(last.request)
           /\ cache[k].request.timezone = last.request.timezone

\* The request of slot s went through both handlers.
Served(s) == pc[s] = "idle" /\ request[s] # NoRequest

\* The next step of the request in slot s
StepOf(s) ==
    \/ CheckMethod(s)
    \/ GetHeaderList(s)
    \/ GetPage(s)
    \/ HeadGetHeaderList(s)
    \/ HeadGetPage(s)
    \/ \E made \in ConcResponses : BeginResponse(s, made, NoWho)
    \/ LearnStep(s)
    \/ StoreStep(s)

\* The call of process_response in slot s sets its page on this step.
StoresPage(s) == pc[s] = "store" /\ ~IsNone(frame[s].store) /\ pc'[s] = "idle"

\* No handler call has raised, no request under way is blocked, every request
\* that went through both handlers has a response.
BothServed ==
    /\ last.outcome # "raise"
    /\ \A s \in Slots :
           /\ pc[s] # "idle" => ENABLED StepOf(s)
           /\ Served(s) => ~IsNone(frame[s].response)

\* C14: the handlers take no lock, and under every interleaving of the
\* backend calls of two requests no handler call raises, a request that is
\* under way is never blocked (its next step can be taken whatever the other
\* request did) and a request that went through both handlers has a
\* response; the page key holds the response of the store that ran last:
\* every page store leaves the response of the call that makes it under its
\* key, whatever another request stored there and whatever happened between
\* its own backend calls, and the entry stays as that store left it until
\* the next store under the key or its expiry.
C14_ConcurrentMissesBothServed ==
    /\ []BothServed
    /\ [][/\ \A s \in Slots :
                 StoresPage(s) =>
                     /\ frame[s].store[1].key \in DOMAIN cache'
                     /\ cache'[frame[s].store[1].key].value = frame[s].response[1]
                     /\ last'.handler = "process_response"
                     /\ last'.slot = s
                     /\ last'.returned = frame[s].response
          /\ \A k \in PageKeys :
                 \/ k \in DOMAIN cache' /\ cache'[k] = cache[k]
                 \/ \E s \in Slots : StoresPage(s) /\ frame[s].store[1].key = k
                 \/ last'.handler = "expire" /\ k \notin DOMAIN cache']_vars

\* Two requests to the same path missed, the handler answered them with
\* different bodies, and the two calls of process_response overlapped: the
\* call in slot s2 began while the call in slot s1 was between its backend
\* calls, both set the header list, the call in slot s1 set the page and the
\* call in slot s2 has just set the same page key: the page on file is the
\* response of slot s2, that of slot s1 was overwritten.
C14_Witness ==
    /\ AfterRespond
    /\ last.slot = "s2"
    /\ last.beside
    /\ Served("s1") /\ Served("s2")
    /\ update["s1"] = "true" /\ update["s2"] = "true"
    /\ IsNone(frame["s1"].list1) /\ IsNone(frame["s2"].list1)
    /\ ~IsNone(frame["s1"].learn) /\ ~IsNone(frame["s2"].learn)
    /\ ~IsNone(frame["s1"].store) /\ ~IsNone(frame["s2"].store)
    /\ frame["s1"].learn[1].header_key = frame["s2"].learn[1].header_key
    /\ frame["s1"].store[1].key = frame["s2"].store[1].key
    /\ frame["s1"].store[1].value # frame["s2"].store[1].value
    /\ cache[frame["s2"].store[1].key].value = frame["s2"].response[1]
    /\ cache[frame["s2"].store[1].key].value # frame["s1"].response[1]

\* process_request of the HEAD request in slot s has computed the HEAD page
\* key: it has called get_cache_key twice.
HeadKeyComputed(s) == request[s].method = "HEAD" /\ frame[s].reads = 2

\* C20: in one process_request call for a HEAD request the GET page key and
\* the HEAD page key are derived from the same header list and neither is
\* None, whatever learn steps and expiries happen between the two reads of
\* the header list.
C20_Original ==
    \A s \in Slots :
        HeadKeyComputed(s) =>
            /\ frame[s].list2 = frame[s].list1
            /\ ~IsNone(frame[s].key1)
            /\ ~IsNone(frame[s].key2)

\* The part of it that fails by expiry: the HEAD page key is never None.
C20_HeadKeyNeverNone == \A s \in Slots : HeadKeyComputed(s) => ~IsNone(frame[s].key2)

\* The part of it that fails by a learn step of another request: whenever
\* both reads found a header list, they found the same one.
C20_SameListWhenOnFile ==
    \A s \in Slots :
        (HeadKeyComputed(s) /\ ~IsNone(frame[s].list2)) =>
            frame[s].list2 = frame[s].list1

\* The timeout the response given calls for: its max-age, the default
\* timeout if it has none.
GivenTimeout ==
    IF IsNone(GivenMaxAge) THEN middleware.cache_timeout ELSE GivenMaxAge[1]

\* The arguments of the cache.set of the header list the last call made
Learnt == frame[last.slot].learn[1]

\* C15: whenever process_response writes, the header-list entry and the page
\* entry (or the page store it defers to rendering) have the same timeout:
\* the max-age of the response, which is then not 0, or the default timeout
\* (self.cache_timeout) if the response has no max-age.
C15_SameTimeoutForBoth ==
    (AfterRespond /\ ~WroteNothing) =>
        /\ Len(ops) >= 1
        /\ ~IsNone(GivenMaxAge) => GivenMaxAge[1] # 0
        /\ ops[1] = SetOp(Learnt.header_key)
        /\ Learnt.timeout = GivenTimeout
        /\ last.quiet =>
               /\ cache[ops[1].key].kind = "headerlist"
               /\ cache[ops[1].key].timeout = GivenTimeout
        /\ IF Len(ops) = 2
           THEN /\ cache[ops[2].key].kind = "page"
                /\ cache[ops[2].key].timeout = GivenTimeout
           ELSE callback[last.slot][1].timeout = GivenTimeout

\* A response with max-age=2 was stored under a default timeout of 1: both
\* entries have timeout 2.
C15_Witness ==
    /\ AfterRespond
    /\ Len(ops) = 2
    /\ GivenMaxAge = Some(2)
    /\ middleware.cache_timeout = 1
    /\ last.quiet
    /\ cache[ops[1].key].timeout = 2
    /\ cache[ops[2].key].timeout = 2

\* process_response was given a 200 response without max-age, with the flag
\* true, under a default timeout of 0.
ZeroDefault ==
    /\ AfterRespond
    /\ last.flag = "true"
    /\ last.given[1].status_code = 200
    /\ IsNone(GivenMaxAge)
    /\ middleware.cache_timeout = 0

\* C19 as stated: then process_response returns the response with the
\* freshness headers patched and writes nothing; it writes only when the
\* timeout resolved is not 0.
C19_Original ==
    /\ ZeroDefault =>
           /\ last.returned = Some(PatchResponseHeaders(last.given[1], 0))
           /\ WroteNothing
    /\ (AfterRespond /\ ~WroteNothing) => GivenTimeout # 0

\* C19 amended: then process_response writes nothing, and when
\* _should_update_cache lets the request through it returns the response
\* with the freshness headers patched; under the anonymous-only policy with
\* an accessed session it returns the response unpatched for an
\* authenticated user and raises when request.user is missing.  It writes
\* only when the timeout resolved is not 0.
C19_ZeroDefaultPatchesOnly ==
    /\ ZeroDefault =>
           /\ WroteNothing
           /\ CASE ShouldUpdateCache(last.flag, last.who) = "true" ->
                      /\ last.outcome = "return"
                      /\ last.returned = Some(PatchResponseHeaders(last.given[1], 0))
                      /\ HasHeader(last.returned[1], "Expires")
                      /\ GetMaxAge(last.returned[1]) = Some(0)
                 [] ShouldUpdateCache(last.flag, last.who) = "false" ->
                      last.outcome = "return" /\ last.returned = last.given
                 [] OTHER -> last.outcome = "raise"
    /\ (AfterRespond /\ ~WroteNothing) => GivenTimeout # 0

\* Under a default timeout of 0 a response without max-age came back patched
\* (Expires, ETag, max-age=0) and nothing was written or deferred.
C19_Witness ==
    /\ ZeroDefault
    /\ last.outcome = "return"
    /\ last.returned # last.given
    /\ HasHeader(last.returned[1], "ETag")
    /\ last.returned[1].headers["Expires"] = "now+0"
    /\ WroteNothing
    /\ cache = EmptyMap

\* The keys the call in slot s resolved for its stores
LearntKey(s) == frame[s].learn[1].header_key

LearntPageKey(s) ==
    GenerateCacheKey(request[s], request[s].method, frame[s].learn[1].headerlist, Prefix)

\* C16: process_response, given a response with a render method that it
\* stores, sets the header list only and registers a callback bound to the
\* page key derived from that header list and to the header list's timeout;
\* the callback stays as it is until the response is rendered; when it fires
\* it writes one entry, that page key, holding the rendered response with
\* that timeout, and is gone.  Given a response without a render method,
\* process_response sets the header list and then the page before it
\* returns, and registers nothing.
C16_DeferredStoreAfterRender ==
    [][\A s \in Slots :
          /\ (pc[s] = "respond" /\ Steps(s)) => cache' = cache /\ callback' = callback
          /\ (pc[s] = "learn" /\ pc'[s] = "store") =>
                 /\ ops' = <<SetOp(GenerateCacheHeaderKey(Prefix, request[s]))>>
                 /\ Written \subseteq {ops'[1].key}
                 /\ cache'[ops'[1].key].kind = "headerlist"
                 /\ cache'[ops'[1].key].value = frame[s].learn[1].headerlist
                 /\ callback' = callback
          /\ (pc[s] = "store" /\ pc'[s] = "render") =>
                 /\ last'.given[1].render
                 /\ ops' = <<SetOp(LearntKey(s))>>
                 /\ cache' = cache
                 /\ callback'[s][1].key = LearntPageKey(s)
                 /\ callback'[s][1].timeout = frame[s].learn[1].timeout
                 /\ callback'[s][1].value = last'.returned[1]
          /\ (pc[s] = "render" /\ pc'[s] = "render") => callback'[s] = callback[s]
          /\ (pc[s] = "render" /\ pc'[s] = "idle") =>
                 /\ ops' = <<SetOp(callback[s][1].key)>>
                 /\ Written \subseteq {callback[s][1].key}
                 /\ cache'[callback[s][1].key].kind = "page"
                 /\ cache'[callback[s][1].key].value = Rendered(callback[s][1].value)
                 /\ cache'[callback[s][1].key].timeout = callback[s][1].timeout
                 /\ IsNone(callback'[s])
          /\ (pc[s] = "store" /\ pc'[s] = "idle") =>
                 /\ ~last'.given[1].render
                 /\ ops' = <<SetOp(LearntKey(s)), SetOp(LearntPageKey(s))>>
                 /\ Written \subseteq {ops'[2].key}
                 /\ cache'[ops'[2].key].kind = "page"
                 /\ cache'[ops'[2].key].value = last'.returned[1]
                 /\ cache'[ops'[2].key].timeout = frame[s].learn[1].timeout
                 /\ IsNone(callback'[s])]_vars

\* The callback of a late-rendered response has fired while another request
\* was under way: the page on file under its key is the rendered response,
\* and the header list it was keyed with is on file too.
C16_Witness ==
    /\ last.handler = "render"
    /\ IsNone(callback[last.slot])
    /\ ops = <<SetOp(GenerateCacheKey(last.request, last.request.method,
                                      <<"HTTP_COOKIE">>, Prefix))>>
    /\ cache[ops[1].key].value = last.returned[1]
    /\ cache[ops[1].key].value.content = "rendered b1"
    /\ GenerateCacheHeaderKey(Prefix, last.request) \in DOMAIN cache
    /\ \E s \in Slots : pc[s] = "respond"

\* process_request returns to the pipeline on this step, for slot s.
RequestReturns(s) == pc[s] # "respond" /\ pc'[s] = "respond"

\* C17: the flag of a request changes on one step only, the one on which
\* process_request returns: it had no value before, and it is true if and
\* only if the method is GET or HEAD and process_request returns None.
\* Nothing changes it afterwards, no step of process_response in particular,
\* until the slot holds a new request object, which has no flag.
C17_FlagAssignedOnce ==
    [][\A s \in Slots :
          /\ update'[s] # update[s] =>
                 \/ pc[s] = "idle" /\ update'[s] = "unset"
                 \/ update[s] = "unset" /\ RequestReturns(s)
          /\ RequestReturns(s) =>
                 /\ update[s] = "unset"
                 /\ update'[s] \in {"true", "false"}
                 /\ (update'[s] = "true") <=>
                        (request[s].method \in {"GET", "HEAD"} /\ IsNone(hit'[s]))
                 /\ last'.handler = "process_request"
                 /\ last'.returned = hit'[s]
                 /\ last'.flag = update'[s]
          /\ pc[s] \in {"respond", "learn", "store"} => update'[s] = update[s]]_vars

\* A HEAD request was answered from the cache by the fallback read of its
\* HEAD page and its flag is false, while the flag of the request that went
\* through process_response before it is still true.
C17_Witness ==
    /\ last.handler = "process_request"
    /\ last.request.method = "HEAD"
    /\ frame[last.slot].reads = 2
    /\ ~IsNone(hit[last.slot])
    /\ update[last.slot] = "false"
    /\ \E s \in Slots : Served(s) /\ update[s] = "true" /\ ~IsNone(frame[s].store)

\* The Vary header of the response process_response was given, as its
\* pieces; <<>> if it has none.
GivenVary ==
    IF HasHeader(last.given[1], "Vary") THEN last.given[1].headers["Vary"] ELSE <<>>

\* The header list each Vary header must be learned as
ExpectedHeaderList ==
    CASE GivenVary = <<>> -> <<>>
      [] GivenVary = <<"Cookie">> -> <<"HTTP_COOKIE">>
      [] GivenVary = <<"Accept-Language", ", ", "cookie">> ->
             <<"HTTP_ACCEPT_LANGUAGE", "HTTP_COOKIE">>
      [] GivenVary = <<"cookie", ",", "accept-language">> ->
             <<"HTTP_COOKIE", "HTTP_ACCEPT_LANGUAGE">>
      [] GivenVary = <<"Cookie", " , ">> -> <<"HTTP_COOKIE", "HTTP_">>

\* The digest input of a request with Accept-Language "a" and Cookie "b" for
\* each of these header lists
ExpectedHeaderValues ==
    CASE GivenVary = <<>> -> ""
      [] GivenVary = <<"Cookie">> -> "b"
      [] GivenVary = <<"Accept-Language", ", ", "cookie">> -> "ab"
      [] GivenVary = <<"cookie", ",", "accept-language">> -> "ba"
      [] GivenVary = <<"Cookie", " , ">> -> "b"

\* C18: the header list process_response sets is the list of the Vary
\* header's items, in the header's order, each in upper case with "_" for
\* "-" and the prefix "HTTP_", and the empty list if the response has no
\* Vary header; the page key it sets is made of the request's own method and
\* of the request's values of those headers in that order.
C18_LearnsVaryInOrder ==
    (AfterRespond /\ Len(ops) = 2) =>
        /\ ops[1] = SetOp(Learnt.header_key)
        /\ Learnt.headerlist = ExpectedHeaderList
        /\ last.quiet =>
               /\ cache[ops[1].key].kind = "headerlist"
               /\ cache[ops[1].key].value = ExpectedHeaderList
        /\ ops[2].key = "views.decorators.cache.cache_page.site."
                            \o last.request.method \o "." \o MD5("/a%20b")
                            \o "." \o MD5(ExpectedHeaderValues)
        /\ cache[ops[2].key].headerlist = ExpectedHeaderList

\* A HEAD request's response with "Vary: cookie,accept-language" was stored:
\* the list on file starts with HTTP_COOKIE and the page is under a HEAD key
\* made of the cookie's value followed by the language's.
C18_Witness ==
    /\ AfterRespond
    /\ Len(ops) = 2
    /\ last.request.method = "HEAD"
    /\ GivenVary = <<"cookie", ",", "accept-language">>
    /\ last.quiet
    /\ cache[ops[1].key].value = <<"HTTP_COOKIE", "HTTP_ACCEPT_LANGUAGE">>
    /\ ops[2].key = "views.decorators.cache.cache_page.site.HEAD."
                        \o MD5("/a%20b") \o "." \o MD5("ba")

====
